---- MODULE Spec2Model ----
(***************************************************************************)
(* Model of the LLM log analyzer (src/app.py): the page script main() and  *)
(* the retrying API client analyze_logs_with_llm().                        *)
(*                                                                         *)
(* Text typed by the user and text decoded from a file are sequences of    *)
(* Unicode code points; file contents are sequences of bytes.  The strings *)
(* the client returns (the failure messages and the generated text) are    *)
(* TLA+ strings.  JSON values are tagged records [t |-> tag, v |-> value]. *)
(***************************************************************************)
EXTENDS Integers, Sequences, FiniteSets, TLC

\* ------------------------------------------------------------------ bounds
MaxFileLen == 2
MaxTextLen == 1

\* ------------------------------------------------------- program constants
MaxRetries == 5
BackoffBase == 2

api_key == ""

MsgConnect == "An error occurred while connecting to the API."
MsgDecode == "An error occurred while processing the API response."
MsgNoAnalysis == "No analysis could be generated."
MsgRetries == "Failed to get a response from the API after several retries."

ErrNetwork == "Network or client error"
ErrJson == "Error decoding JSON response"
ErrNoValid == "Error: Could not get a valid response from the API."
ErrMaxRetries == "Max retries reached. Could not complete the API request."

WarnEmptyInput == "Please paste some logs or upload a file to analyze."

\* ------------------------------------------------------------ input values
\* Bytes a file may be made of: a newline, and the two bytes of U+00E9, which
\* are valid together in that order and invalid alone or in any other order.
\* Characters the user may type: a double quote and an opening brace.
FileBytes == {10, 195, 169}
TextChars == {34, 123}

SeqsUpTo(S, n) == UNION {[1..k -> S] : k \in 0..n}

NoFile == [present |-> FALSE, bytes |-> <<>>]
File(b) == [present |-> TRUE, bytes |-> b]
Uploads == {NoFile} \cup {File(b) : b \in SeqsUpTo(FileBytes, MaxFileLen)}
Texts == SeqsUpTo(TextChars, MaxTextLen)

\* ---------------------------------------------------------- UTF-8 decoding
IsCont(b) == b >= 128 /\ b <= 191

\* Number of bytes of the sequence a lead byte opens; 0 for a byte that
\* cannot open one.
SeqLen(b0) ==
  IF b0 < 128 THEN 1
  ELSE IF b0 >= 194 /\ b0 <= 223 THEN 2
  ELSE IF b0 >= 224 /\ b0 <= 239 THEN 3
  ELSE IF b0 >= 240 /\ b0 <= 244 THEN 4
  ELSE 0

\* Range the second byte must lie in (excludes overlong forms, surrogates
\* and code points above U+10FFFF).
SecondOk(b0, b1) ==
  IF b0 = 224 THEN b1 >= 160 /\ b1 <= 191
  ELSE IF b0 = 237 THEN b1 >= 128 /\ b1 <= 159
  ELSE IF b0 = 240 THEN b1 >= 144 /\ b1 <= 191
  ELSE IF b0 = 244 THEN b1 >= 128 /\ b1 <= 143
  ELSE IsCont(b1)

CodePoint(b, i, n) ==
  IF n = 1 THEN b[i]
  ELSE IF n = 2 THEN (b[i] - 192) * 64 + (b[i+1] - 128)
  ELSE IF n = 3 THEN (b[i] - 224) * 4096 + (b[i+1] - 128) * 64 + (b[i+2] - 128)
  ELSE (b[i] - 240) * 262144 + (b[i+1] - 128) * 4096
       + (b[i+2] - 128) * 64 + (b[i+3] - 128)

RECURSIVE DecodeFrom(_, _, _)
DecodeFrom(b, i, acc) ==
  IF i > Len(b) THEN [ok |-> TRUE, text |-> acc]
  ELSE LET n == SeqLen(b[i]) IN
    IF n = 0 \/ i + n - 1 > Len(b) THEN [ok |-> FALSE, text |-> <<>>]
    ELSE IF n >= 2 /\ ~SecondOk(b[i], b[i+1]) THEN [ok |-> FALSE, text |-> <<>>]
    ELSE IF \E j \in 2..(n-1) : ~IsCont(b[i+j]) THEN [ok |-> FALSE, text |-> <<>>]
    ELSE DecodeFrom(b, i + n, Append(acc, CodePoint(b, i, n)))

\* bytes.decode("utf-8"): the text, or ok = FALSE for UnicodeDecodeError.
Utf8Decode(b) == DecodeFrom(b, 1, <<>>)

\* ------------------------------------------------------- input acquisition
\* The text area preferred when it holds text.
AcquireInputTextFirst(file, text) ==
  IF file.present /\ text = <<>>
  THEN Utf8Decode(file.bytes)
  ELSE [ok |-> TRUE, text |-> text]

\* The text area used when the file decodes to nothing.
AcquireInputFallback(file, text) ==
  IF file.present /\ Utf8Decode(file.bytes) # [ok |-> TRUE, text |-> <<>>]
  THEN Utf8Decode(file.bytes)
  ELSE [ok |-> TRUE, text |-> text]

\* Lines 95-102: the value of logs_input, or ok = FALSE when decoding raises.
AcquireInput(file, text) ==
  IF file.present
  THEN Utf8Decode(file.bytes)
  ELSE [ok |-> TRUE, text |-> text]

\* -------------------------------------------------------------- JSON values
JNull == [t |-> "null", v |-> 0]
JStr(s) == [t |-> "str", v |-> s]
JList(l) == [t |-> "list", v |-> l]
JObj(f) == [t |-> "obj", v |-> f]

\* The outcome of evaluating a Python expression: a value, or an exception.
Val(x) == [ok |-> TRUE, val |-> x, exc |-> "none"]
Exc(e) == [ok |-> FALSE, val |-> JNull, exc |-> e]

\* result.get(key): only a dict has .get; a missing key gives None.
PyGet(x, key) ==
  IF x.t # "obj" THEN Exc("AttributeError")
  ELSE IF key \in DOMAIN x.v THEN Val(x.v[key]) ELSE Val(JNull)

\* bool(x), as the if statement of line 66 takes it.
Truthy(x) ==
  IF x.t = "null" THEN FALSE
  ELSE IF x.t = "str" THEN x.v # ""
  ELSE IF x.t = "list" THEN Len(x.v) > 0
  ELSE DOMAIN x.v # {}

\* r[key] for a string key, r the outcome of the expression before it.
PyKey(r, key) ==
  IF ~r.ok THEN r
  ELSE IF r.val.t # "obj" THEN Exc("TypeError")
  ELSE IF key \in DOMAIN r.val.v THEN Val(r.val.v[key]) ELSE Exc("KeyError")

\* The last element read in place of the first.
PyIndexLast(r) ==
  IF ~r.ok THEN r
  ELSE IF r.val.t = "obj" THEN Exc("KeyError")
  ELSE IF r.val.t # "list" THEN Exc("TypeError")
  ELSE IF Len(r.val.v) = 0 THEN Exc("IndexError")
  ELSE Val(r.val.v[Len(r.val.v)])

\* r[0].  (The bodies below hold strings only as the "text" leaf, which is
\* never indexed.)
PyIndex0(r) ==
  IF ~r.ok THEN r
  ELSE IF r.val.t = "obj" THEN Exc("KeyError")
  ELSE IF r.val.t # "list" THEN Exc("TypeError")
  ELSE IF Len(r.val.v) = 0 THEN Exc("IndexError")
  ELSE Val(r.val.v[1])

\* Line 67: result["candidates"][0]["content"]["parts"][0]["text"]
ExtractText(result) ==
  PyKey(PyIndex0(PyKey(PyKey(PyIndex0(PyKey(Val(result), "candidates")),
                             "content"), "parts")), "text")

\* ----------------------------------------------------- what the endpoint sends
TextA == "Root Cause: disk full"
TextB == "Root Cause: timeout"

Candidate(s) ==
  JObj([content |-> JObj([parts |-> JList(<<JObj([text |-> JStr(s)])>>)])])

\* Bodies response.json() can parse to.
Bodies == <<
  JObj([candidates |-> JList(<<Candidate(TextA)>>)]),
  JObj([candidates |-> JList(<<Candidate(TextA), Candidate(TextB)>>)]),
  JObj([candidates |-> JList(<<Candidate("")>>)]),
  JObj([candidates |-> JList(<<>>)]),
  JObj([error |-> JStr("quota")]),
  JObj([candidates |-> JList(<<JObj([finishReason |-> JStr("SAFETY")])>>)]),
  JObj([candidates |-> JList(<<JObj([content |-> JObj([parts |-> JList(<<>>)])])>>)]),
  JList(<<>>),
  JNull >>

BodyIds == 1..Len(Bodies)

\* How reading the body (line 64) ends: parsed, or one of the two exception
\* classes the call handles.
Reads == {"parsed", "ClientError", "JSONDecodeError"}

Statuses == {200, 304, 400, 404, 429, 499, 500}

\* ------------------------------------------------------------ the API client
\* Every error status taken as transient.
IsRetryableAnyError(status) == status >= 400

\* Line 56
IsRetryable(status) == status = 429 \/ status >= 500

\* A linear delay in place of the exponential one.
BackoffLinear(n) == BackoffBase * n

\* The delay computed after the increment.
BackoffOffByOne(n) == BackoffBase ^ (n + 1)

\* Line 57
Backoff(n) == BackoffBase ^ n

\* The warning worded with the delay of the next round.
WarningNextDelay(status, n) == <<status, Backoff(n + 1)>>

\* Line 58: the status and the delay the warning tells.
WarningFor(status, n) == <<status, Backoff(n)>>

\* The sleep not awaited: control goes straight back to the loop.
NotAwaited == "request"

\* Line 59: where the call stands once the warning is out.
AfterWarning == "sleep"

\* The loop test off by one.
RetriesRemainInclusive(n) == n <= MaxRetries

\* Line 51
RetriesRemain(n) == n < MaxRetries

\* Line 63: raise_for_status() raises ClientResponseError, a ClientError.
RaisesForStatus(status) == status >= 400

Returned(s, e) == [kind |-> "return", value |-> s, exc |-> "none", error |-> e]
Raised(x) == [kind |-> "raise", value |-> "", exc |-> x, error |-> ""]

\* One except clause for both classes.
HandleMerged(x) ==
  IF x = "ClientError" \/ x = "JSONDecodeError"
  THEN Returned(MsgConnect, ErrNetwork)
  ELSE Raised(x)

\* Lines 73-78: the except clauses of the try statement.
Handle(x) ==
  IF x = "ClientError" THEN Returned(MsgConnect, ErrNetwork)
  ELSE IF x = "JSONDecodeError" THEN Returned(MsgDecode, ErrJson)
  ELSE Raised(x)

\* A test for presence in place of the test for truth.
HasCandidatesKey(c) == c.t # "null"

\* Line 66: the test that selects the extraction branch.
HasCandidates(c) == Truthy(c)

\* Lines 64-71 for a body that parsed.
Interpret(body) ==
  LET c == PyGet(body, "candidates") IN
  IF ~c.ok THEN Handle(c.exc)
  ELSE IF HasCandidates(c.val)
       THEN LET t == ExtractText(body) IN
            IF t.ok THEN Returned(t.val.v, "") ELSE Handle(t.exc)
       ELSE Returned(MsgNoAnalysis, ErrNoValid)

\* Lines 63-71: how the call ends on a response that is not retried.
Complete(status, read, b) ==
  IF RaisesForStatus(status) THEN Handle("ClientError")
  ELSE IF read # "parsed" THEN Handle(read)
  ELSE Interpret(Bodies[b])

\* ------------------------------------------------------------- the request
\* Line 10
API_URL ==
  "https://generativelanguage.googleapis.com/v1beta/models/gemini-2.5-flash-preview-05-20:generateContent"

\* Lines 24-28: the code points of the template up to {logs}.
PromptHead ==
  << 10, 32, 32, 32, 32, 65, 110, 97, 108, 121, 122, 101, 32, 116, 104, 101,
     32, 102, 111, 108, 108, 111, 119, 105, 110, 103, 32, 115, 101, 114, 118,
     101, 114, 32, 108, 111, 103, 115, 32, 97, 110, 100, 32, 112, 114, 111,
     118, 105, 100, 101, 32, 97, 32, 115, 117, 109, 109, 97, 114, 121, 32,
     111, 102, 32, 116, 104, 101, 32, 114, 111, 111, 116, 32, 99, 97, 117,
     115, 101, 44, 32, 112, 111, 116, 101, 110, 116, 105, 97, 108, 32, 110,
     101, 120, 116, 32, 115, 116, 101, 112, 115, 44, 32, 97, 110, 100, 32,
     97, 110, 121, 32, 114, 101, 99, 111, 109, 109, 101, 110, 100, 101, 100,
     32, 115, 99, 114, 105, 112, 116, 115, 32, 111, 114, 32, 99, 111, 109,
     109, 97, 110, 100, 115, 46, 10, 32, 32, 32, 32, 84, 104, 101, 32, 108,
     111, 103, 115, 32, 97, 114, 101, 32, 97, 115, 32, 102, 111, 108, 108,
     111, 119, 115, 58, 10, 10, 32, 32, 32, 32 >>

\* Lines 28-31: the code points of the template after {logs}.
PromptTail ==
  << 10, 10, 32, 32, 32, 32, 80, 108, 101, 97, 115, 101, 32, 102, 111, 114,
     109, 97, 116, 32, 116, 104, 101, 32, 114, 101, 115, 112, 111, 110, 115,
     101, 32, 99, 108, 101, 97, 114, 108, 121, 32, 119, 105, 116, 104, 32,
     104, 101, 97, 100, 105, 110, 103, 115, 32, 102, 111, 114, 32, 34, 82,
     111, 111, 116, 32, 67, 97, 117, 115, 101, 34, 44, 32, 34, 78, 101, 120,
     116, 32, 83, 116, 101, 112, 115, 34, 44, 32, 97, 110, 100, 32, 34, 82,
     101, 99, 111, 109, 109, 101, 110, 100, 101, 100, 32, 83, 99, 114, 105,
     112, 116, 115, 47, 67, 111, 109, 109, 97, 110, 100, 115, 34, 46, 10, 32,
     32, 32, 32 >>

\* The placeholder left in the text, as a string without the f prefix keeps it.
BuildPromptLiteral(logs) == PromptHead \o <<123, 108, 111, 103, 115, 125>> \o PromptTail

\* Lines 24-31: the f-string with logs interpolated.
BuildPrompt(logs) == PromptHead \o logs \o PromptTail

\* Lines 19-21
BuildHeaders == [ContentType |-> "application/json"]

\* Lines 33-47
BuildPayload(logs) ==
  [ contents |-> << [role |-> "user", parts |-> << [text |-> BuildPrompt(logs)] >>] >>,
    generationConfig |-> [responseMimeType |-> "text/plain"] ]

\* The hexadecimal digit json.dumps writes for d in 0..15.
HexDigit(d) == IF d < 10 THEN 48 + d ELSE 87 + d

\* \uXXXX for a 16-bit unit.
UEscape(u) ==
  << 92, 117, HexDigit(u \div 4096), HexDigit((u \div 256) % 16),
     HexDigit((u \div 16) % 16), HexDigit(u % 16) >>

\* json.dumps of one character, as the json= argument of line 54 serialises
\* it (ensure_ascii): short escapes, \uXXXX outside ' '..'~', surrogate pairs
\* above U+FFFF.
JsonEscapeChar(c) ==
  IF c = 34 THEN <<92, 34>>
  ELSE IF c = 92 THEN <<92, 92>>
  ELSE IF c = 10 THEN <<92, 110>>
  ELSE IF c = 13 THEN <<92, 114>>
  ELSE IF c = 9 THEN <<92, 116>>
  ELSE IF c = 12 THEN <<92, 102>>
  ELSE IF c = 8 THEN <<92, 98>>
  ELSE IF c >= 32 /\ c <= 126 THEN <<c>>
  ELSE IF c < 65536 THEN UEscape(c)
  ELSE UEscape(55296 + ((c - 65536) \div 1024))
       \o UEscape(56320 + ((c - 65536) % 1024))

\* The characters are escaped one by one and the pieces joined in order (the
\* text is halved so that the evaluation stays shallow).
RECURSIVE JsonEscape(_)
JsonEscape(t) ==
  IF Len(t) = 0 THEN <<>>
  ELSE IF Len(t) = 1 THEN JsonEscapeChar(t[1])
  ELSE LET h == Len(t) \div 2 IN
       JsonEscape(SubSeq(t, 1, h)) \o JsonEscape(SubSeq(t, h + 1, Len(t)))

\* The body as line 54 puts a payload on the wire: its strings that vary, the
\* prompts, in their serialised form.
Serialise(p) ==
  [ contents |->
      [ i \in DOMAIN p.contents |->
          [ role |-> p.contents[i].role,
            parts |-> [ j \in DOMAIN p.contents[i].parts |->
                          [text |-> JsonEscape(p.contents[i].parts[j].text)] ] ] ],
    generationConfig |-> p.generationConfig ]

\* The conversation grown by one turn on every retry.
RequestGrown(h, p, n) ==
  [ url |-> API_URL, key |-> api_key, headers |-> h,
    json |-> IF n = 0 THEN p
             ELSE [p EXCEPT !.contents = p.contents \o p.contents] ]

\* The arguments of the POST of attempt n, with the locals h and p (line 54).
RequestAt(h, p, n) ==
  [url |-> API_URL, key |-> api_key, headers |-> h, json |-> p]

NoHeaders == [ContentType |-> ""]
NoPayload ==
  [ contents |-> << [role |-> "", parts |-> << [text |-> <<>>] >>] >>,
    generationConfig |-> [responseMimeType |-> ""] ]
NoRequest == [url |-> "", key |-> "", headers |-> NoHeaders, json |-> NoPayload]

\* ---------------------------------------------------------------- the state
VARIABLES
  uploaded_file,    \* the file uploader's value (line 93)
  text_area,        \* what the user has entered in the text area (line 102)
  logs_input,       \* logs_input of the latest run of main()
  page_exc,         \* the exception that ended the latest run of main(), or "none"
  ui_warning,       \* the latest run showed the empty-input warning (line 118)
  displayed,        \* what the latest run displayed as analysis (line 116)
  download,         \* the latest run rendered the download button (line 122)
  download_data,    \* the data of that button (line 124), "" without a button
  session_state,    \* st.session_state["llm_analysis_result"]
  pc,               \* "idle", or where analyze_logs_with_llm stands
  retries,          \* the attempt counter (line 50)
  httpCount,        \* HTTP requests this call has issued
  inFlight,         \* a request has been issued and not yet answered
  statuses,         \* the statuses this call has received, in order
  sleeps,           \* the delays this call has slept, in order
  warnings,         \* st.warning of this call: <<status, delay>> pairs
  errors,           \* st.error messages of this call
  lastBody,         \* index in Bodies of the body last parsed, 0 if none
  lastRead,         \* how the last body read ended, "none" if none was read
  outcome,          \* how the call ended: a Returned/Raised record
  button,           \* st.button("Analyze Logs") of the latest run (line 105)
  lastReturn,       \* the string the latest call that returned has returned
  headers,          \* headers of the call (lines 19-21)
  payload,          \* payload of the call (lines 33-47)
  lastSent          \* the arguments of the latest POST of this call

vars == <<uploaded_file, text_area, logs_input, page_exc, ui_warning, displayed,
          download, download_data, session_state, pc, retries, httpCount, inFlight, statuses,
          sleeps, warnings, errors, lastBody, lastRead, outcome, button,
          lastReturn, headers, payload, lastSent>>

reqVars == <<headers, payload, lastSent>>

\* The body the latest POST has put on the wire (json= of line 54).
WireBody == Serialise(lastSent.json)

uiVars == <<uploaded_file, text_area, logs_input, page_exc, ui_warning,
            displayed, download, download_data, session_state, button>>

Pending == [kind |-> "pending", value |-> "", exc |-> "none", error |-> ""]

NoResult == [has |-> FALSE, value |-> ""]
Stored(s) == [has |-> TRUE, value |-> s]

\* The first result kept, as setdefault would.
RetainFirst(ss, value) == IF ss.has THEN ss ELSE Stored(value)

\* Line 112: the session state after the assignment.
Retain(ss, value) == Stored(value)

\* The call started whatever the input.
StartsCallUnchecked(click, logs) == click

\* Lines 105-106: the button is pressed and logs_input is not empty.
StartsCall(click, logs) == click /\ logs # <<>>

\* What a call that ends with outcome o leaves as the latest returned string.
Returns(o, last) == IF o.kind = "return" THEN Stored(o.value) ELSE last

\* Line 121
DownloadOffered(ss) == ss.has /\ ss.value # ""

\* Line 124
DownloadData(ss) == IF DownloadOffered(ss) THEN ss.value ELSE ""

\* The locals of analyze_logs_with_llm before its loop (line 50).
CallStart ==
  /\ retries' = 0
  /\ httpCount' = 0
  /\ inFlight' = FALSE
  /\ statuses' = <<>>
  /\ sleeps' = <<>>
  /\ warnings' = <<>>
  /\ errors' = <<>>
  /\ lastBody' = 0
  /\ lastRead' = "none"
  /\ lastSent' = NoRequest

Init ==
  /\ uploaded_file = NoFile
  /\ text_area = <<>>
  /\ logs_input = <<>>
  /\ page_exc = "none"
  /\ ui_warning = FALSE
  /\ displayed = NoResult
  /\ download = FALSE
  /\ download_data = ""
  /\ session_state = NoResult
  /\ pc = "idle"
  /\ retries = 0
  /\ httpCount = 0
  /\ inFlight = FALSE
  /\ statuses = <<>>
  /\ sleeps = <<>>
  /\ warnings = <<>>
  /\ errors = <<>>
  /\ lastBody = 0
  /\ lastRead = "none"
  /\ outcome = Pending
  /\ button = FALSE
  /\ lastReturn = NoResult
  /\ headers = NoHeaders
  /\ payload = NoPayload
  /\ lastSent = NoRequest

\* Lines 80-81, reached when the loop test of line 51 fails.
Exhausted == Returned(MsgRetries, ErrMaxRetries)

\* Line 51 with n the attempt counter: go round again, or fall out of the loop.
LoopTest(n, errs) ==
  IF RetriesRemain(n)
  THEN /\ pc' = "request"
       /\ outcome' = Pending
       /\ errors' = errs
       /\ UNCHANGED lastReturn
  ELSE /\ pc' = "returned"
       /\ outcome' = Exhausted
       /\ errors' = Append(errs, Exhausted.error)
       /\ lastReturn' = Returns(Exhausted, lastReturn)

\* A run of main() (lines 88-128) up to the point where it awaits the client:
\* the user has set the widgets (file, text) and has or has not pressed the
\* button.  Without a call the run goes through to the download button.
RunMain(file, text, click) ==
  /\ pc = "idle"
  /\ uploaded_file' = file
  /\ text_area' = text
  /\ displayed' = NoResult
  /\ UNCHANGED session_state
  /\ LET in == AcquireInput(file, text) IN
     IF ~in.ok
     THEN /\ logs_input' = <<>>
          /\ page_exc' = "UnicodeDecodeError"
          /\ ui_warning' = FALSE
          /\ download' = FALSE
          /\ download_data' = ""
          /\ button' = FALSE
          /\ UNCHANGED <<pc, retries, httpCount, inFlight, statuses, sleeps,
                         warnings, errors, lastBody, lastRead, outcome,
                         lastReturn, reqVars>>
     ELSE /\ logs_input' = in.text
          /\ page_exc' = "none"
          /\ button' = click
          /\ IF StartsCall(click, in.text)
             THEN /\ headers' = BuildHeaders
                  /\ payload' = BuildPayload(in.text)
                  /\ CallStart
                  /\ LoopTest(0, <<>>)
                  /\ ui_warning' = FALSE
                  /\ download' = FALSE
                  /\ download_data' = ""
             ELSE /\ ui_warning' = click
                  /\ download' = DownloadOffered(session_state)
                  /\ download_data' = DownloadData(session_state)
                  /\ UNCHANGED <<pc, retries, httpCount, inFlight, statuses,
                                 sleeps, warnings, errors, lastBody, lastRead,
                                 outcome, lastReturn, reqVars>>

\* Line 54: the POST is issued.
SendRequest ==
  /\ pc = "request"
  /\ pc' = "response"
  /\ httpCount' = httpCount + 1
  /\ inFlight' = TRUE
  /\ lastSent' = RequestAt(headers, payload, retries)
  /\ UNCHANGED <<uiVars, retries, statuses, sleeps, warnings, errors, lastBody,
                 lastRead, outcome, lastReturn, headers, payload>>

\* Line 54 raises aiohttp.ClientError: no response arrives (lines 73-75).
TransportFailure ==
  /\ pc = "response"
  /\ inFlight' = FALSE
  /\ outcome' = Handle("ClientError")
  /\ errors' = Append(errors, outcome'.error)
  /\ lastReturn' = Returns(outcome', lastReturn)
  /\ pc' = "returned"
  /\ UNCHANGED <<uiVars, retries, httpCount, statuses, sleeps, warnings,
                 lastBody, lastRead, reqVars>>

\* Lines 56-58: a response with a retryable status; the warning is shown and
\* the sleep begins.
ReceiveRetryable(status) ==
  /\ pc = "response"
  /\ IsRetryable(status)
  /\ inFlight' = FALSE
  /\ statuses' = Append(statuses, status)
  /\ warnings' = Append(warnings, WarningFor(status, retries))
  /\ pc' = AfterWarning
  /\ UNCHANGED <<uiVars, retries, httpCount, sleeps, errors, lastBody, lastRead,
                 outcome, lastReturn, reqVars>>

\* Lines 59-61 and the loop test of line 51: the sleep ends.
Sleep ==
  /\ pc = "sleep"
  /\ sleeps' = Append(sleeps, Backoff(retries))
  /\ retries' = retries + 1
  /\ LoopTest(retries + 1, errors)
  /\ UNCHANGED <<uiVars, httpCount, inFlight, statuses, warnings, lastBody,
                 lastRead, reqVars>>

\* Lines 63-78: a response with any other status ends the call.
ReceiveFinal(status, read, b) ==
  /\ pc = "response"
  /\ ~IsRetryable(status)
  /\ inFlight' = FALSE
  /\ statuses' = Append(statuses, status)
  /\ lastRead' = IF RaisesForStatus(status) THEN "none" ELSE read
  /\ lastBody' = IF RaisesForStatus(status) \/ read # "parsed" THEN 0 ELSE b
  /\ outcome' = Complete(status, read, b)
  /\ errors' = IF outcome'.error = "" THEN errors
               ELSE Append(errors, outcome'.error)
  /\ lastReturn' = Returns(outcome', lastReturn)
  /\ pc' = "returned"
  /\ UNCHANGED <<uiVars, retries, httpCount, sleeps, warnings, reqVars>>

\* Lines 109-128: control is back in main().  A returned string is stored and
\* displayed; an exception that escaped the call ends the run of main().
Finish ==
  /\ pc = "returned"
  /\ pc' = "idle"
  /\ IF outcome.kind = "return"
     THEN /\ session_state' = Retain(session_state, outcome.value)
          /\ displayed' = Stored(outcome.value)
          /\ download' = DownloadOffered(session_state')
          /\ download_data' = DownloadData(session_state')
          /\ page_exc' = "none"
     ELSE /\ page_exc' = outcome.exc
          /\ download' = FALSE
          /\ download_data' = ""
          /\ UNCHANGED <<session_state, displayed>>
  /\ CallStart
  /\ headers' = NoHeaders
  /\ payload' = NoPayload
  /\ outcome' = Pending
  /\ UNCHANGED <<uploaded_file, text_area, logs_input, ui_warning, button,
                 lastReturn>>

Next ==
  \/ \E file \in Uploads, text \in Texts, click \in BOOLEAN :
       RunMain(file, text, click)
  \/ SendRequest
  \/ TransportFailure
  \/ \E status \in Statuses : ReceiveRetryable(status)
  \/ Sleep
  \/ \E status \in Statuses, read \in Reads, b \in BodyIds :
       ReceiveFinal(status, read, b)
  \/ Finish

Spec == Init /\ [][Next]_vars

\* Every HTTP exchange and every sleep completes, and main() runs on.
CallStep == SendRequest \/ TransportFailure
            \/ (\E status \in Statuses : ReceiveRetryable(status))
            \/ Sleep
            \/ (\E status \in Statuses, read \in Reads, b \in BodyIds :
                  ReceiveFinal(status, read, b))
            \/ Finish

FairSpec == Spec /\ WF_vars(CallStep)

\* ------------------------------------------------------------------ claims
Last(q) == q[Len(q)]

AllRetryable == \A i \in 1..Len(statuses) : statuses[i] = 429 \/ statuses[i] >= 500

\* C1: when every response of a call has status 429 or >= 500, the call makes
\* exactly 5 HTTP attempts, sleeps 1, 2, 4, 8, 16 seconds (one sleep after each
\* attempt) and returns the "several retries" failure string; no call ever
\* makes more than 5 attempts.
C1_RetryBound ==
  /\ httpCount <= 5
  /\ (pc = "returned" /\ httpCount = Len(statuses) /\ AllRetryable)
       => /\ httpCount = 5
          /\ sleeps = <<1, 2, 4, 8, 16>>
          /\ outcome.kind = "return"
          /\ outcome.value = "Failed to get a response from the API after several retries."

C1_Witness ==
  /\ pc = "returned"
  /\ statuses = <<429, 500, 500, 429, 500>>
  /\ httpCount = 5
  /\ outcome.value = MsgRetries

\* C2: with no API credential (the key is the empty string) a call issues no
\* HTTP request and returns a failure string of its own, one that is none of
\* the strings of the other outcomes.
C2_MissingCredential ==
  (pc = "returned" /\ api_key = "")
    => /\ httpCount = 0
       /\ outcome.kind = "return"
       /\ outcome.value \notin {MsgConnect, MsgDecode, MsgNoAnalysis, MsgRetries,
                                TextA, TextB, ""}

FixedFailures ==
  { "An error occurred while connecting to the API.",
    "An error occurred while processing the API response.",
    "No analysis could be generated.",
    "Failed to get a response from the API after several retries." }

\* The body is a JSON object whose "candidates" is a non-empty list.
NonEmptyCandidates(body) ==
  /\ body.t = "obj"
  /\ "candidates" \in DOMAIN body.v
  /\ body.v.candidates.t = "list"
  /\ Len(body.v.candidates.v) > 0

\* The first candidate has the shape {"content": {"parts": [{"text": s}]}}.
FirstCandidateHasText(body) ==
  LET c == body.v.candidates.v[1] IN
  /\ c.t = "obj" /\ "content" \in DOMAIN c.v
  /\ c.v.content.t = "obj" /\ "parts" \in DOMAIN c.v.content.v
  /\ c.v.content.v.parts.t = "list" /\ Len(c.v.content.v.parts.v) > 0
  /\ c.v.content.v.parts.v[1].t = "obj"
  /\ "text" \in DOMAIN c.v.content.v.parts.v[1].v
  /\ c.v.content.v.parts.v[1].v.text.t = "str"

FirstCandidateText(body) == body.v.candidates.v[1].v.content.v.parts.v[1].v.text.v

\* C3: however the endpoint behaves, a call that has ended has returned a
\* string, either a fixed failure string or the generated text; no exception
\* leaves the call.
C3_AlwaysReturnsString ==
  pc = "returned"
    => /\ outcome.kind = "return"
       /\ \/ outcome.value \in FixedFailures
          \/ /\ lastBody # 0
             /\ NonEmptyCandidates(Bodies[lastBody])
             /\ FirstCandidateHasText(Bodies[lastBody])
             /\ outcome.value = FirstCandidateText(Bodies[lastBody])

\* The delays slept before attempt k: 1, 2, ..., 2^(k-2).
DelaysBefore(k) == [i \in 1..(k-1) |-> 2 ^ (i-1)]

FatalStatus(status) == status >= 400 /\ status <= 499 /\ status # 429

\* C5: a response with a 4xx status other than 429, at any attempt, ends the
\* call at once with the connection failure string: no sleep follows it, the
\* attempt counter is not incremented and no further request is issued.
C5_FatalShortCircuit ==
  (Len(statuses) > 0 /\ FatalStatus(Last(statuses)))
    => /\ pc = "returned"
       /\ outcome.kind = "return"
       /\ outcome.value = "An error occurred while connecting to the API."
       /\ httpCount = Len(statuses)
       /\ retries = Len(statuses) - 1
       /\ sleeps = DelaysBefore(httpCount)
       /\ Len(warnings) = Len(statuses) - 1
       /\ ~ENABLED SendRequest /\ ~ENABLED Sleep

C5_Witness ==
  /\ pc = "returned"
  /\ statuses = <<429, 500, 404>>
  /\ retries = 2
  /\ outcome.value = MsgConnect

\* A request was issued, is no longer in flight and brought no response.
TransportFailed == ~inFlight /\ httpCount = Len(statuses) + 1

\* C6: a transport failure (no response, or a failure reading the body) and a
\* body that does not decode each end the call at once, at any attempt, with
\* the fixed string of the category; no sleep follows and no further request
\* is issued.
C6_TransportDecodeNotRetried ==
  /\ (TransportFailed \/ lastRead = "ClientError")
       => /\ pc = "returned"
          /\ outcome.kind = "return"
          /\ outcome.value = "An error occurred while connecting to the API."
          /\ errors = <<"Network or client error">>
  /\ lastRead = "JSONDecodeError"
       => /\ pc = "returned"
          /\ outcome.kind = "return"
          /\ outcome.value = "An error occurred while processing the API response."
          /\ errors = <<"Error decoding JSON response">>
  /\ (TransportFailed \/ lastRead \in {"ClientError", "JSONDecodeError"})
       => /\ retries = Len(sleeps)
          /\ sleeps = DelaysBefore(httpCount)
          /\ ~ENABLED SendRequest /\ ~ENABLED Sleep

C6_Witness ==
  /\ pc = "returned"
  /\ statuses = <<500, 200>>
  /\ lastRead = "JSONDecodeError"
  /\ outcome.value = MsgDecode

\* The body is a JSON object whose "candidates" is absent or an empty list.
NoCandidates(body) ==
  /\ body.t = "obj"
  /\ \/ "candidates" \notin DOMAIN body.v
     \/ body.v.candidates.t = "list" /\ Len(body.v.candidates.v) = 0

\* C7: a 2xx response whose body parses to an object with an empty or absent
\* candidates list ends the call at once, at any attempt, with "No analysis
\* could be generated." after one error message; no sleep follows and no
\* further request is issued.
C7_EmptyCandidatesTerminal ==
  ( /\ Len(statuses) > 0
    /\ Last(statuses) >= 200 /\ Last(statuses) <= 299
    /\ lastBody # 0
    /\ NoCandidates(Bodies[lastBody]) )
    => /\ pc = "returned"
       /\ outcome.kind = "return"
       /\ outcome.value = "No analysis could be generated."
       /\ errors = <<"Error: Could not get a valid response from the API.">>
       /\ httpCount = Len(statuses)
       /\ retries = Len(statuses) - 1
       /\ sleeps = DelaysBefore(httpCount)
       /\ ~ENABLED SendRequest /\ ~ENABLED Sleep

C7_Witness ==
  /\ pc = "returned"
  /\ statuses = <<429, 200>>
  /\ lastBody = 4
  /\ outcome.value = MsgNoAnalysis

InCall == pc \in {"request", "response", "sleep"}

\* C8: a call that has begun, every exchange and every sleep completing,
\* eventually ends, and at no point has it issued more than 5 HTTP requests.
C8_Termination ==
  /\ [](httpCount <= 5)
  /\ InCall ~> (pc = "returned" /\ outcome.kind \in {"return", "raise"})

C8_Witness ==
  /\ pc = "returned"
  /\ httpCount = 5
  /\ statuses = <<500, 500, 500, 500, 200>>
  /\ outcome.value = TextA

\* The UTF-8 encoding of one code point.
EncodeChar(c) ==
  IF c < 128 THEN <<c>>
  ELSE IF c < 2048 THEN <<192 + (c \div 64), 128 + (c % 64)>>
  ELSE IF c < 65536
       THEN <<224 + (c \div 4096), 128 + ((c \div 64) % 64), 128 + (c % 64)>>
  ELSE <<240 + (c \div 262144), 128 + ((c \div 4096) % 64),
         128 + ((c \div 64) % 64), 128 + (c % 64)>>

RECURSIVE Utf8Encode(_)
Utf8Encode(t) ==
  IF t = <<>> THEN <<>> ELSE EncodeChar(Head(t)) \o Utf8Encode(Tail(t))

\* The latest run of main() decoded the file it was given.
Decoded == uploaded_file.present /\ page_exc # "UnicodeDecodeError"

\* C9: with a non-empty file, whatever the pasted text, logs_input is the text
\* whose UTF-8 encoding is the file's bytes; with no file it is the pasted
\* text, which is the empty string when nothing was pasted.
C9_InputPrecedence ==
  /\ (Decoded /\ uploaded_file.bytes # <<>>)
       => /\ logs_input # <<>>
          /\ Utf8Encode(logs_input) = uploaded_file.bytes
  /\ ~uploaded_file.present => logs_input = text_area
  /\ (~uploaded_file.present /\ text_area = <<>>) => logs_input = <<>>

C9_Witness ==
  /\ uploaded_file = File(<<195, 169>>)
  /\ text_area = <<34>>
  /\ logs_input = <<233>>
  /\ pc = "request"

\* C10 as stated: a file that decodes to the empty string makes input
\* acquisition fall back to the pasted text.
C10_EmptyFileFallsBack ==
  (Decoded /\ uploaded_file.bytes = <<>>) => logs_input = text_area

\* C10 amended: a supplied file wins even when it decodes to the empty
\* string: logs_input is then empty whatever was pasted, no call is started,
\* and pressing the button only shows the empty-input warning.
C10_EmptyFileWins ==
  (Decoded /\ uploaded_file.bytes = <<>>)
    => /\ logs_input = <<>>
       /\ pc = "idle"
       /\ httpCount = 0

C10_Witness ==
  /\ uploaded_file = File(<<>>)
  /\ text_area = <<34>>
  /\ logs_input = <<>>
  /\ ui_warning

\* C11: one result is retained at a time and, whenever no call is running, it
\* is the string the latest call that returned has returned, failure strings
\* included; it is written only by the step that takes a call's return value,
\* and what that run displays and offers for download is the value just
\* written.
C11_RetainedResult ==
  /\ [](pc = "idle" => session_state = lastReturn)
  /\ [](pc = "idle" /\ displayed.has
          => displayed = session_state /\ download = (session_state.value # ""))
  /\ [][session_state' # session_state
          => /\ pc = "returned" /\ outcome.kind = "return" /\ pc' = "idle"
             /\ session_state' = [has |-> TRUE, value |-> outcome.value]]_vars
  /\ [][(pc = "returned" /\ outcome.kind = "return")
          => session_state' = [has |-> TRUE, value |-> outcome.value]]_vars

C11_Witness ==
  /\ pc = "idle"
  /\ session_state = Stored(MsgRetries)
  /\ displayed = Stored(MsgRetries)
  /\ lastReturn = Stored(MsgRetries)
  /\ page_exc = "none"

\* C12: when the button is pressed with an empty logs_input no call is started
\* and no HTTP request issued, the warning is shown, nothing is raised and no
\* error reported, and the retained result is left as it was.
C12_EmptyInputSkipped ==
  /\ []((button /\ logs_input = <<>>)
          => /\ ui_warning
             /\ pc = "idle" /\ httpCount = 0 /\ ~inFlight
             /\ page_exc = "none" /\ errors = <<>>
             /\ ~displayed.has)
  /\ [][(button' /\ logs_input' = <<>>)
          => session_state' = session_state /\ lastReturn' = lastReturn]_vars

C12_Witness ==
  /\ button /\ logs_input = <<>>
  /\ ui_warning
  /\ session_state = Stored(TextA)
  /\ download

\* --- reading a JSON string back, as the endpoint's parser does
\* The number of backslashes that stand directly before position i.
BackslashesBefore(w, i) ==
  Cardinality({k \in 1..(i-1) : \A m \in 1..k : w[i-m] = 92})

\* Position i opens an escape sequence.
EscapeStart(w, i) == w[i] = 92 /\ BackslashesBefore(w, i) % 2 = 0

\* Position i belongs to an escape sequence opened before it.
InsideEscape(w, i) ==
  \/ i > 1 /\ EscapeStart(w, i - 1)
  \/ \E k \in 2..5 : i > k /\ EscapeStart(w, i - k) /\ w[i - k + 1] = 117

HexValue(c) == IF c <= 57 THEN c - 48 ELSE c - 87

\* The character the escape sequence opened at i stands for (a \uXXXX gives
\* its 16-bit unit).
Unescaped(w, i) ==
  LET e == w[i + 1] IN
  IF e = 110 THEN 10
  ELSE IF e = 114 THEN 13
  ELSE IF e = 116 THEN 9
  ELSE IF e = 102 THEN 12
  ELSE IF e = 98 THEN 8
  ELSE IF e = 117
       THEN HexValue(w[i+2]) * 4096 + HexValue(w[i+3]) * 256
            + HexValue(w[i+4]) * 16 + HexValue(w[i+5])
  ELSE e

RECURSIVE UnescapeRange(_, _, _)
UnescapeRange(w, lo, hi) ==
  IF lo > hi THEN <<>>
  ELSE IF lo = hi
       THEN IF InsideEscape(w, lo) THEN <<>>
            ELSE IF EscapeStart(w, lo) THEN <<Unescaped(w, lo)>>
            ELSE <<w[lo]>>
  ELSE LET mid == (lo + hi) \div 2 IN
       UnescapeRange(w, lo, mid) \o UnescapeRange(w, mid + 1, hi)

JsonUnescape(w) == UnescapeRange(w, 1, Len(w))

\* The request body carries the log text L verbatim in its one text field,
\* between the two parts of the template, and asks for plain text.
CarriesVerbatim(body, L) ==
  /\ Len(body.contents) = 1
  /\ body.contents[1].role = "user"
  /\ Len(body.contents[1].parts) = 1
  /\ LET prompt == JsonUnescape(body.contents[1].parts[1].text) IN
       /\ Len(prompt) = Len(PromptHead) + Len(L) + Len(PromptTail)
       /\ SubSeq(prompt, 1, Len(PromptHead)) = PromptHead
       /\ SubSeq(prompt, Len(PromptHead) + 1, Len(PromptHead) + Len(L)) = L
       /\ SubSeq(prompt, Len(PromptHead) + Len(L) + 1, Len(prompt)) = PromptTail
  /\ body.generationConfig.responseMimeType = "text/plain"

\* C13: the body of the request a call sends carries logs_input verbatim: read
\* back from its serialised form, the one text field is the template with
\* logs_input, quotes, braces, newlines and non-ASCII characters included,
\* unaltered in the place of {logs}, and responseMimeType is "text/plain".
\* The same holds of the body built for the empty string, which main() never
\* passes to the call.
C13_PromptVerbatim ==
  /\ (pc = "response" /\ httpCount = 1) => CarriesVerbatim(WireBody, logs_input)
  /\ (pc = "idle" /\ button /\ logs_input = <<>>)
       => CarriesVerbatim(Serialise(BuildPayload(logs_input)), <<>>)

C13_Witness ==
  /\ pc = "response" /\ httpCount = 1
  /\ uploaded_file = NoFile
  /\ logs_input = <<34>>
  /\ JsonUnescape(WireBody.contents[1].parts[1].text)
       = PromptHead \o <<34>> \o PromptTail

\* C16: the headers and the payload are built once, before the loop; no step of
\* the call changes them, and every POST of the call sends one and the same
\* request: the fixed URL with the key, those headers, that payload.
C16_RequestImmutable ==
  /\ []((pc \in {"request", "response", "sleep", "returned"})
          => /\ headers = [ContentType |-> "application/json"]
             /\ payload.contents[1].parts[1].text = PromptHead \o logs_input \o PromptTail)
  /\ [][(pc # "idle" /\ pc' # "idle") => (headers' = headers /\ payload' = payload)]_vars
  /\ [][(httpCount >= 1 /\ httpCount' = httpCount + 1) => lastSent' = lastSent]_vars
  /\ []((httpCount >= 1)
          => /\ lastSent.url = API_URL /\ lastSent.key = api_key
             /\ lastSent.headers = headers
             /\ lastSent.json = payload)

C16_Witness ==
  /\ pc = "response"
  /\ httpCount = 5
  /\ retries = 4
  /\ lastSent.json.contents[1].parts[1].text
       = PromptHead \o logs_input \o PromptTail
  /\ lastSent.headers = BuildHeaders

\* The retryable responses the call has received so far.
NumRetryable ==
  Cardinality({i \in 1..Len(statuses) : statuses[i] = 429 \/ statuses[i] >= 500})

RECURSIVE SumSeq(_)
SumSeq(q) == IF q = <<>> THEN 0 ELSE Head(q) + SumSeq(Tail(q))

\* Each sleep is 2^attempt seconds, the total after r of them is 2^r - 1 and at
\* most 31; three retryable responses (503 is one) and then a 200 with a valid
\* candidate make 4 requests and 7 seconds.
SleepArithmetic ==
  /\ \A i \in 1..Len(sleeps) : sleeps[i] = 2 ^ (i - 1)
  /\ SumSeq(sleeps) = 2 ^ Len(sleeps) - 1
  /\ SumSeq(sleeps) <= 31
  /\ (503 = 429 \/ 503 >= 500) /\ IsRetryable(503)
  /\ ( /\ pc = "returned" /\ Len(statuses) = 4 /\ NumRetryable = 3
       /\ statuses[4] = 200 /\ lastBody # 0
       /\ NonEmptyCandidates(Bodies[lastBody])
       /\ FirstCandidateHasText(Bodies[lastBody]) )
       => /\ httpCount = 4
          /\ SumSeq(sleeps) = 1 + 2 + 4
          /\ outcome.value = FirstCandidateText(Bodies[lastBody])

\* C14 as stated: at every point of a call the attempt counter is the number
\* of retryable responses received so far, and the sleeps add up as told.
C14_CounterAtEveryPoint ==
  pc # "idle" => (retries = NumRetryable /\ SleepArithmetic)

\* C14 amended: the counter is incremented when the sleep ends, so it is the
\* number of sleeps completed: the number of retryable responses received
\* whenever a request is pending or in flight or the call has ended, and one
\* less during the sleep that follows a retryable response; the sleeps add up
\* as told.
C14_BackoffArithmetic ==
  pc # "idle"
    => /\ retries = Len(sleeps)
       /\ pc = "sleep" => retries = NumRetryable - 1
       /\ pc # "sleep" => retries = NumRetryable
       /\ SleepArithmetic

C14_Witness ==
  /\ pc = "sleep"
  /\ statuses = <<429, 500, 500>>
  /\ retries = 2
  /\ sleeps = <<1, 2>>

\* C15: a request is in flight only while the call awaits its response; a POST
\* is issued only when none is in flight, every earlier attempt has been
\* answered with a retryable status and the sleep of each has ended; and a call
\* starts only when no call is running.
C15_SequentialAttempts ==
  /\ [](inFlight => pc = "response")
  /\ [](pc \in {"request", "response", "sleep"}
          => httpCount = Len(statuses) + (IF inFlight THEN 1 ELSE 0))
  /\ [][httpCount' = httpCount + 1
          => /\ ~inFlight /\ inFlight'
             /\ Len(statuses) = httpCount /\ NumRetryable = httpCount
             /\ Len(sleeps) = httpCount]_vars
  /\ [][(pc' = "request" /\ httpCount' = 0 /\ Len(sleeps') = 0)
          => (pc \in {"idle", "request"} /\ ~inFlight)]_vars

C15_Witness ==
  /\ pc = "response"
  /\ inFlight
  /\ httpCount = 3
  /\ statuses = <<500, 429>>
  /\ sleeps = <<1, 2>>

\* C17: each retryable response brings one warning with its status and the
\* delay 2^attempt, shown before the sleep it announces has been slept; no
\* other outcome brings one, so a call that has ended has shown as many
\* warnings as it has slept.
C17_RetryWarnings ==
  pc # "idle"
    => /\ Len(warnings) = NumRetryable
       /\ \A i \in 1..Len(warnings) : warnings[i] = <<statuses[i], 2 ^ (i - 1)>>
       /\ \A i \in 1..Len(sleeps) : sleeps[i] = warnings[i][2]
       /\ pc = "sleep" => Len(warnings) = Len(sleeps) + 1
       /\ pc # "sleep" => Len(warnings) = Len(sleeps)

C17_Witness ==
  /\ pc = "sleep"
  /\ warnings = << <<429, 1>>, <<500, 2>> >>
  /\ sleeps = <<1>>

\* C18: at the end of every run of main() the download is offered exactly when
\* a result is retained and is not the empty string, failure strings included,
\* and its data is the retained result.
C18_DownloadOffered ==
  pc = "idle"
    => /\ download = (session_state.has /\ session_state.value # "")
       /\ download => download_data = session_state.value

====
